---- MODULE Spec2Model ----
(***************************************************************************)
(* Model of sst_common_sim/detectors.py: simulated detectors built on      *)
(* ophyd's Signal / SynSignal / DeviceStatus.                              *)
(*                                                                         *)
(* Time is counted in ticks of half a second, so 1.5 s is 3 ticks.         *)
(* A DeviceStatus object is a record of the sequence `handles`; the        *)
(* thread that trigger() starts for it is kept in the same record          *)
(* (fields wpc, wdelay, remaining, sleepDur).                              *)
(***************************************************************************)
EXTENDS Integers, Sequences, FiniteSets, TLC

VARIABLES
    exposure_time,  \* SynSignalDelayed.exposure_time of the derived device's val
    exposure_sp,    \* SimI400Base.exposure_sp: the stored Python value
    handles,        \* every DeviceStatus created so far, in creation order
    returned,       \* the handle ids trigger() calls have returned, in call order
    callerPc,       \* position of the caller thread
    lin_slope,      \* SynLinear.slope
    lin_offset,     \* SynLinear.offset
    x_in,           \* what the x function of SynLinear returns now
    lin_val,        \* SynLinear.val: the stored readback
    der_val,        \* DerivedSynDevice.val: the stored readback
    calls,          \* how often each compute function has been invoked
    ret,            \* what the caller's last call returned, if it was a read()
    dep_read,       \* the value returned by the last SynLinear.read()
    erf_cfg,        \* SynErf configuration signals and sign
    dist_in,        \* what the distance function of SynErf returns now
    erf_val,        \* SynErf.val: the stored readback
    deps,           \* the dependency devices of the composite device
    cmp_kind,       \* which composite device it is, fixed at construction
    cmp_val,        \* the composite device's val: the stored readback
    erf_probe,      \* what a test watching the SynErf has noted so far
    norm_cfg,       \* SynNormal.center and SynNormal.width
    norm_val,       \* SynNormal.val: the stored readback
    built           \* what the constructor of each device did

trigVars == <<exposure_time, exposure_sp, handles, returned, callerPc>>
linVars  == <<lin_slope, lin_offset, x_in, lin_val, der_val, dep_read>>
erfVars  == <<erf_cfg, dist_in, erf_val>>
cmpVars  == <<deps, cmp_kind, cmp_val>>
normVars == <<norm_cfg, norm_val, built>>
vars     == <<exposure_time, exposure_sp, handles, returned, callerPc,
              lin_slope, lin_offset, x_in, lin_val, der_val, calls, ret,
              dep_read, erf_cfg, dist_in, erf_val, deps, cmp_kind, cmp_val,
              erf_probe, norm_cfg, norm_val, built>>

\* ---------------------------------------------------------------- bounds
MaxHandles == 2     \* DeviceStatus objects created in one behaviour

Min(a, b) == IF a < b THEN a ELSE b
Max(a, b) == IF a > b THEN a ELSE b
Abs(a)    == IF a < 0 THEN -a ELSE a

\* ------------------------------------------------- Python values and text
\* A Python value the caller may hand to set_exposure or that a Signal may
\* hold: an int n, a float of n half units, or a str of characters s.
PyInt(n)   == [kind |-> "int",   n |-> n, s |-> <<>>]
PyFloat(h) == [kind |-> "float", n |-> h, s |-> <<>>]
PyStr(s)   == [kind |-> "str",   n |-> 0, s |-> s]

DigitChar(d) ==
    CASE d = 0 -> "0" [] d = 1 -> "1" [] d = 2 -> "2" [] d = 3 -> "3"
      [] d = 4 -> "4" [] d = 5 -> "5" [] d = 6 -> "6" [] d = 7 -> "7"
      [] d = 8 -> "8" [] d = 9 -> "9"

IsDigit(c) == c \in {"0", "1", "2", "3", "4", "5", "6", "7", "8", "9"}

DigitVal(c) ==
    CASE c = "0" -> 0 [] c = "1" -> 1 [] c = "2" -> 2 [] c = "3" -> 3
      [] c = "4" -> 4 [] c = "5" -> 5 [] c = "6" -> 6 [] c = "7" -> 7
      [] c = "8" -> 8 [] c = "9" -> 9

RECURSIVE NatText(_)
NatText(n) ==
    IF n < 10 THEN <<DigitChar(n)>>
    ELSE NatText(n \div 10) \o <<DigitChar(n % 10)>>

\* str(n) of an int.
IntText(n) == IF n < 0 THEN <<"-">> \o NatText(-n) ELSE NatText(n)

\* repr of a float on the half-unit grid: 3 halves is "1.5", 2 halves "1.0".
FloatText(h) ==
    (IF h < 0 THEN <<"-">> ELSE <<>>)
        \o NatText(Abs(h) \div 2)
        \o <<".">>
        \o (IF Abs(h) % 2 = 1 THEN <<"5">> ELSE <<"0">>)

\* f"{exp_time}"
FormatValue(v) ==
    CASE v.kind = "int"   -> IntText(v.n)
      [] v.kind = "float" -> FloatText(v.n)
      [] v.kind = "str"   -> v.s

RECURSIVE NatOf(_)
NatOf(ds) ==
    IF ds = <<>> THEN 0
    ELSE 10 * NatOf(SubSeq(ds, 1, Len(ds) - 1)) + DigitVal(ds[Len(ds)])

AllDigits(ds) == \A i \in 1..Len(ds) : IsDigit(ds[i])

DotAt(t) ==
    IF \E i \in 1..Len(t) : t[i] = "."
    THEN CHOOSE i \in 1..Len(t) : t[i] = "." /\ \A j \in 1..(i - 1) : t[j] # "."
    ELSE 0

\* float(text) for text of the shape [sign] digits ["." digits]; any other
\* text makes float() raise ValueError (ok = FALSE).  The result is in half
\* units; of the fractions only .0 and .5 lie on that grid, and no other
\* fraction is produced by the values of ExposureArgs.
ParseFloatText(t) ==
    LET signed == t # <<>> /\ t[1] \in {"-", "+"}
        body   == IF signed THEN SubSeq(t, 2, Len(t)) ELSE t
        dot    == DotAt(body)
        ip     == IF dot = 0 THEN body ELSE SubSeq(body, 1, dot - 1)
        fp     == IF dot = 0 THEN <<>> ELSE SubSeq(body, dot + 1, Len(body))
        good   == /\ AllDigits(ip) /\ AllDigits(fp)
                  /\ Len(ip) + Len(fp) > 0
        mag    == 2 * NatOf(ip) + (IF fp # <<>> /\ fp[1] = "5" THEN 1 ELSE 0)
    IN  IF good
        THEN [ok |-> TRUE, v |-> IF signed /\ t[1] = "-" THEN -mag ELSE mag]
        ELSE [ok |-> FALSE, v |-> 0]

\* float(x) of a stored Python value.
ToFloat(v) ==
    CASE v.kind = "int"   -> [ok |-> TRUE, v |-> 2 * v.n]
      [] v.kind = "float" -> [ok |-> TRUE, v |-> v.n]
      [] v.kind = "str"   -> ParseFloatText(v.s)

\* What callers pass to set_exposure: 0, 0.5 and a non-numeric string.
ExposureArgs == {PyInt(0), PyFloat(1), PyStr(<<"a", "b", "c">>)}

\* Durations handed to set_exposure: 0, 1, 0.5 and 1.5 seconds.
Durations == {PyInt(0), PyInt(1), PyFloat(1), PyFloat(3)}

\* What callers assign to val.exposure_time (in ticks).
ExposureTimes == {-1, 0, 2}

\* ------------------------------------------------------- DeviceStatus
\* DeviceStatus(device=...): a fresh, pending status object.  dTrig is the
\* delay configured on the device at the moment trigger() was called,
\* elapsed the time since then (a stopwatch that stops when the handle
\* finishes and saturates at dTrig), retState the state the handle had when
\* trigger() returned it.
NewStatus(dev, configured) ==
    [dev |-> dev, state |-> "pending", finishCalls |-> 0,
     dTrig |-> configured, elapsed |-> 0, retState |-> "none",
     wpc |-> "none", wdelay |-> 0, remaining |-> 0,
     sleepDur |-> -1, sleeper |-> "none"]

\* st.set_finished()
set_finished(st) ==
    [st EXCEPT !.state = "finished", !.finishCalls = @ + 1]

\* threading.Thread(target=..., daemon=True).start(): the worker exists and
\* has not run yet; wdelay is what the closure captured, if anything.
StartThread(st, captured) ==
    [st EXCEPT !.wpc = "spawned", !.wdelay = captured]

\* Variant of SynSignalDelayed.trigger that starts a thread whatever the
\* delay is.
SynSignalDelayed_trigger_always_thread(dev, delay_time) ==
    StartThread(NewStatus(dev, [ok |-> TRUE, v |-> delay_time]), delay_time)

\* Variant of SynSignalDelayed.trigger without the else: the handle is
\* finished by trigger() although a worker was started for it.
SynSignalDelayed_trigger_no_else(dev, delay_time) ==
    LET st == NewStatus(dev, [ok |-> TRUE, v |-> delay_time])
    IN  IF delay_time # 0
        THEN set_finished(StartThread(st, delay_time))
        ELSE set_finished(st)

\* SynSignalDelayed.trigger: the status object as trigger() leaves it.
SynSignalDelayed_trigger(dev, delay_time) ==
    LET st == NewStatus(dev, [ok |-> TRUE, v |-> delay_time])
    IN  IF delay_time # 0
        THEN StartThread(st, delay_time)
        ELSE set_finished(st)

\* ttime.sleep(t) called by a worker: a negative t raises ValueError in the
\* worker thread, which ends the thread.
WorkerSleep(st, t) ==
    IF t < 0
    THEN [st EXCEPT !.wpc = "raised"]
    ELSE [st EXCEPT !.wpc = "sleeping", !.remaining = t,
                    !.sleepDur = t, !.sleeper = "worker"]

\* sleep_and_finish, up to the call of sleep: the delay is the closure's.
sleep_and_finish(st) == WorkerSleep(st, st.wdelay)

\* SimI400Base._acquire, up to the call of sleep: the delay is parsed from
\* the exposure signal as it is when the worker runs; float() raising
\* ValueError ends the thread.
SimI400Base_acquire(st, stored) ==
    LET t == ToFloat(stored)
    IN  IF t.ok
        THEN WorkerSleep([st EXCEPT !.wdelay = t.v], t.v)
        ELSE [st EXCEPT !.wpc = "raised"]

\* The sleep has returned: the worker finishes the handle and exits.
WorkerWake(st) == [set_finished(st) EXCEPT !.wpc = "exited"]

\* SimI400Base.trigger, up to the start of the thread.
SimI400Base_trigger(stored) ==
    StartThread(NewStatus("i400", ToFloat(stored)), 0)

\* SimI400Base.set_exposure: the text that is stored.
SimI400Base_set_exposure(exp_time) == PyStr(FormatValue(exp_time))

TrackStatus_last_wins(hs, st) ==
    Append([i \in 1..Len(hs) |->
                IF hs[i].state = "pending"
                THEN [hs[i] EXCEPT !.wpc = "none"] ELSE hs[i]], st)

\* st = DeviceStatus(device=self) inside trigger(): st is a local of the
\* call and its thread gets this st only, so the status objects and threads
\* of earlier calls are what they were.
TrackStatus(hs, st) == Append(hs, st)

\* trigger() hands the status object to its caller.
Return(st) == [st EXCEPT !.retState = st.state]

\* One tick of time passes for a status object and its worker.
Elapse(st) ==
    [st EXCEPT !.elapsed   = IF st.state = "pending"
                             THEN Min(@ + 1, Max(st.dTrig.v, 0)) ELSE @,
               !.remaining = IF st.wpc = "sleeping" THEN Max(@ - 1, 0) ELSE @]

\* What the caller's last call handed back, when that call was a read():
\* the value read and the number of compute-function invocations the call
\* made.  Any other call of the caller leaves NoResult.
Result(op, value, ncalls) ==
    [op |-> op, value |-> value, ncalls |-> ncalls, err |-> "none"]

\* The caller's last call was a read() that raised err and returned nothing.
Raised(op, ncalls, err) ==
    [op |-> op, value |-> 0, ncalls |-> ncalls, err |-> err]

NoResult == Result("none", 0, 0)

Ids == 1..Len(handles)

\* ------------------------------------------------- trigger protocol: actions
\* dev.val.exposure_time = d
SetExposureTime ==
    /\ callerPc = "idle"
    /\ \E d \in ExposureTimes : d # exposure_time /\ exposure_time' = d
    /\ UNCHANGED <<exposure_sp, handles, returned, callerPc>>
    /\ ret' = NoResult
    /\ UNCHANGED <<linVars, erfVars, calls>>
    /\ UNCHANGED <<cmpVars, erf_probe>>
    /\ UNCHANGED normVars

\* DerivedSynDevice.trigger -> SynSignalDelayed.trigger
DerivedTrigger ==
    /\ callerPc = "idle"
    /\ Len(handles) < MaxHandles
    /\ handles' = TrackStatus(handles,
                    Return(SynSignalDelayed_trigger("derived", exposure_time)))
    /\ returned' = Append(returned, Len(handles) + 1)
    /\ UNCHANGED <<exposure_time, exposure_sp, callerPc>>
    /\ ret' = NoResult
    /\ UNCHANGED <<linVars, erfVars, calls>>
    /\ UNCHANGED <<cmpVars, erf_probe>>
    /\ UNCHANGED normVars

\* The worker of a SynSignalDelayed trigger starts to run.
SleepAndFinish(i) ==
    /\ handles[i].dev \in {"derived", "mult", "compound"}
    /\ handles[i].wpc = "spawned"
    /\ handles' = [handles EXCEPT ![i] = sleep_and_finish(@)]
    /\ UNCHANGED <<exposure_time, exposure_sp, returned, callerPc>>
    /\ UNCHANGED <<linVars, erfVars, calls, ret>>
    /\ UNCHANGED <<cmpVars, erf_probe>>
    /\ UNCHANGED normVars

\* SimI400Base.set_exposure(a) for some a of args
SetExposureTo(args) ==
    /\ callerPc = "idle"
    /\ \E a \in args :
          /\ exposure_sp # SimI400Base_set_exposure(a)
          /\ exposure_sp' = SimI400Base_set_exposure(a)
    /\ UNCHANGED <<exposure_time, handles, returned, callerPc>>
    /\ ret' = NoResult
    /\ UNCHANGED <<linVars, erfVars, calls>>
    /\ UNCHANGED <<cmpVars, erf_probe>>
    /\ UNCHANGED normVars

\* SimI400Base.set_exposure
SetExposure == SetExposureTo(ExposureArgs)

\* SimI400Base.set_exposure with a duration
SetDuration == SetExposureTo(Durations)

\* SimI400Base.trigger: the status is created and the thread started; the
\* caller has not returned yet.
I400TriggerStart ==
    /\ callerPc = "idle"
    /\ Len(handles) < MaxHandles
    /\ handles' = TrackStatus(handles, SimI400Base_trigger(exposure_sp))
    /\ callerPc' = "i400_trigger"
    /\ UNCHANGED <<exposure_time, exposure_sp, returned>>
    /\ ret' = NoResult
    /\ UNCHANGED <<linVars, erfVars, calls>>
    /\ UNCHANGED <<cmpVars, erf_probe>>
    /\ UNCHANGED normVars

\* SimI400Base.trigger: return status
I400TriggerReturn ==
    /\ callerPc = "i400_trigger"
    /\ handles' = [handles EXCEPT ![Len(handles)] = Return(@)]
    /\ returned' = Append(returned, Len(handles))
    /\ callerPc' = "idle"
    /\ UNCHANGED <<exposure_time, exposure_sp>>
    /\ ret' = NoResult
    /\ UNCHANGED <<linVars, erfVars, calls>>
    /\ UNCHANGED <<cmpVars, erf_probe>>
    /\ UNCHANGED normVars

\* The worker of a SimI400Base trigger starts to run.
Acquire(i) ==
    /\ handles[i].dev = "i400"
    /\ handles[i].wpc = "spawned"
    /\ handles' = [handles EXCEPT ![i] = SimI400Base_acquire(@, exposure_sp)]
    /\ UNCHANGED <<exposure_time, exposure_sp, returned, callerPc>>
    /\ UNCHANGED <<linVars, erfVars, calls, ret>>
    /\ UNCHANGED <<cmpVars, erf_probe>>
    /\ UNCHANGED normVars

\* A worker's sleep is over: it finishes its handle and exits.
Wake(i) ==
    /\ handles[i].wpc = "sleeping"
    /\ handles[i].remaining = 0
    /\ handles' = [handles EXCEPT ![i] = WorkerWake(@)]
    /\ UNCHANGED <<exposure_time, exposure_sp, returned, callerPc>>
    /\ UNCHANGED <<linVars, erfVars, calls, ret>>
    /\ UNCHANGED <<cmpVars, erf_probe>>
    /\ UNCHANGED normVars

\* Half a second passes.  A call of trigger() takes no time.
Tick ==
    /\ callerPc = "idle"
    /\ \E i \in Ids : handles[i].state = "pending"
    /\ handles' = [i \in Ids |-> Elapse(handles[i])]
    /\ UNCHANGED <<exposure_time, exposure_sp, returned, callerPc>>
    /\ UNCHANGED <<linVars, erfVars, calls, ret>>
    /\ UNCHANGED <<cmpVars, erf_probe>>
    /\ UNCHANGED normVars

\* ------------------------------------------------------ value sources
\* ophyd Signal.read() on a SynSignal: the stored readback, as it is.
SynSignal_read(stored) ==
    [stored |-> stored, value |-> stored, ncalls |-> 0]

\* Variant of SynSignal.trigger that finishes the handle without storing
\* a new value.
SynSignal_trigger_noput(dev, stored, f) ==
    [stored |-> stored,
     st |-> set_finished(NewStatus(dev, [ok |-> TRUE, v |-> 0]))]

\* ophyd SynSignal.trigger() with its default exposure_time of 0:
\* self.put(self._func()); st.set_finished().  stored is the readback
\* before the call, f what _func() returns.
SynSignal_trigger(dev, stored, f) ==
    [stored |-> f,
     st |-> set_finished(NewStatus(dev, [ok |-> TRUE, v |-> 0]))]

\* Variant of SynSignalDelayed.read that returns the stored readback
\* without calling the compute function.
SynSignalDelayed_read_cached(stored, f) ==
    [stored |-> stored, value |-> stored, ncalls |-> 0]

\* SynSignalDelayed.read: self.put(self._func()); return super().read()
SynSignalDelayed_read(stored, f) ==
    [stored |-> f, value |-> f, ncalls |-> 1]

\* Variant of SynLinear._compute with slope and offset exchanged.
SynLinear_compute_swapped(m, b, x) == b * x + m

\* SynLinear._compute
SynLinear_compute(m, b, x) == m * x + b

\* Variant of DerivedSynDevice._compute that does not look at the
\* dependency.
DerivedSynDevice_compute_blind(dep_stored) == 0

\* DerivedSynDevice._compute: self.signal.val.get(), the dependency's
\* stored readback.
DerivedSynDevice_compute(dep_stored) == dep_stored

\* SynLinear.__init__: put offset and slope, install _compute, trigger once;
\* the trigger calls x once and stores the result.
SynLinear_construct(slope, offset, x) ==
    [val |-> SynSignal_trigger("linear", 0,
                               SynLinear_compute(slope, offset, x)).stored,
     triggers |-> 1, calls |-> 1]

\* SynNormal._compute: np.random.normal(center, width); draw is the
\* deviation from the center, in widths, that the generator returns.
SynNormal_compute(cfg, draw) == cfg.center + draw * cfg.width

\* SynNormal.__init__: put center and width, install _compute, trigger
\* once; the trigger draws once and stores the result.
SynNormal_construct(cfg, draw) ==
    [val |-> SynSignal_trigger("normal", 0, SynNormal_compute(cfg, draw)).stored,
     triggers |-> 1, calls |-> 1]

NormDraws   == {-1, 0, 1}
NormCenters == {3}
NormWidths  == {1, 2}

\* SynNormal.trigger -> SynSignal.trigger
NormTrigger ==
    /\ callerPc = "idle"
    /\ Len(handles) < MaxHandles
    /\ \E draw \in NormDraws :
          LET t == SynSignal_trigger("normal", norm_val,
                                    SynNormal_compute(norm_cfg, draw))
          IN  /\ norm_val' = t.stored
              /\ handles' = TrackStatus(handles, Return(t.st))
    /\ returned' = Append(returned, Len(handles) + 1)
    /\ ret' = NoResult
    /\ UNCHANGED <<exposure_time, exposure_sp, callerPc, linVars, erfVars,
                   calls, cmpVars, erf_probe, norm_cfg, built>>

\* SynNormal.read -> val.read()
NormRead ==
    /\ callerPc = "idle"
    /\ LET r == SynSignal_read(norm_val)
       IN  /\ norm_val' = r.stored
           /\ ret' = Result("norm_read", r.value, r.ncalls)
    /\ UNCHANGED <<trigVars, linVars, erfVars, calls, cmpVars, erf_probe,
                   norm_cfg, built>>

Slopes  == {-1, 2}
Offsets == {0, 1}
Xs      == {0, 1}

\* ------------------------------------------------ SynLinear, DerivedSynDevice
SetSlope ==
    /\ callerPc = "idle"
    /\ \E m \in Slopes : m # lin_slope /\ lin_slope' = m
    /\ UNCHANGED <<lin_offset, x_in, lin_val, der_val, dep_read>>
    /\ ret' = NoResult
    /\ UNCHANGED <<trigVars, erfVars, calls>>
    /\ UNCHANGED <<cmpVars, erf_probe>>
    /\ UNCHANGED normVars

SetOffset ==
    /\ callerPc = "idle"
    /\ \E b \in Offsets : b # lin_offset /\ lin_offset' = b
    /\ UNCHANGED <<lin_slope, x_in, lin_val, der_val, dep_read>>
    /\ ret' = NoResult
    /\ UNCHANGED <<trigVars, erfVars, calls>>
    /\ UNCHANGED <<cmpVars, erf_probe>>
    /\ UNCHANGED normVars

\* The collaborator behind the x function moves.
SetX ==
    /\ callerPc = "idle"
    /\ \E x \in Xs : x # x_in /\ x_in' = x
    /\ UNCHANGED <<lin_slope, lin_offset, lin_val, der_val, dep_read>>
    /\ ret' = NoResult
    /\ UNCHANGED <<trigVars, erfVars, calls>>
    /\ UNCHANGED <<cmpVars, erf_probe>>
    /\ UNCHANGED normVars

\* SynLinear.trigger -> SynSignal.trigger
LinTrigger ==
    /\ callerPc = "idle"
    /\ Len(handles) < MaxHandles
    /\ LET t == SynSignal_trigger("linear", lin_val,
                    SynLinear_compute(lin_slope, lin_offset, x_in))
       IN  /\ lin_val' = t.stored
           /\ handles' = TrackStatus(handles, Return(t.st))
    /\ returned' = Append(returned, Len(handles) + 1)
    /\ calls' = [calls EXCEPT !.x = TRUE]
    /\ UNCHANGED <<lin_slope, lin_offset, x_in, der_val, dep_read>>
    /\ ret' = NoResult
    /\ UNCHANGED <<exposure_time, exposure_sp, callerPc, erfVars>>
    /\ UNCHANGED <<cmpVars, erf_probe>>
    /\ UNCHANGED normVars

\* SynLinear.read -> val.read()
LinRead ==
    /\ callerPc = "idle"
    /\ LET r == SynSignal_read(lin_val)
       IN  /\ lin_val' = r.stored
           /\ ret' = Result("lin_read", r.value, r.ncalls)
           /\ dep_read' = [done |-> TRUE, value |-> r.value]
    /\ UNCHANGED <<lin_slope, lin_offset, x_in, der_val>>
    /\ UNCHANGED <<trigVars, erfVars, calls>>
    /\ UNCHANGED <<cmpVars, erf_probe>>
    /\ UNCHANGED normVars

\* DerivedSynDevice.read -> SynSignalDelayed.read
DerivedRead ==
    /\ callerPc = "idle"
    /\ LET r == SynSignalDelayed_read(der_val,
                    DerivedSynDevice_compute(lin_val))
       IN  /\ der_val' = r.stored
           /\ ret' = Result("der_read", r.value, r.ncalls)
           /\ calls' = [calls EXCEPT !.der = (@ \/ r.ncalls > 0)]
    /\ UNCHANGED <<lin_slope, lin_offset, x_in, lin_val, dep_read>>
    /\ UNCHANGED <<trigVars, erfVars>>
    /\ UNCHANGED <<cmpVars, erf_probe>>
    /\ UNCHANGED normVars

\* ------------------------------------------------------------- SynErf
\* Values of SynErf are in units of 1/20000, so that Imax * norm_erf is an
\* integer; 0.1 is 2000 units.
\* 10000 * erf(a), rounded, for the integer arguments the model uses.
Erf10k(a) ==
    CASE a = 0 -> 0
      [] Abs(a) = 1 -> (IF a < 0 THEN -8427 ELSE 8427)
      [] Abs(a) = 2 -> (IF a < 0 THEN -9953 ELSE 9953)
      [] Abs(a) >= 3 -> (IF a < 0 THEN -10000 ELSE 10000)

\* norm_erf(x, width) = 0.5*(erf(2.0*x/width) + 1), in units of 1/20000.
\* The widths and distances of the model make 2x/width an integer.
norm_erf(x, width) == Erf10k((2 * x) \div width) + 10000

SynErf_compute_noisy(cfg, distance, draw) ==
    cfg.Imax * norm_erf(distance * cfg.sign, cfg.width)
        + draw * cfg.noise_sigma

SynErf_compute_mixed(cfg, distance, draw) ==
    LET v == cfg.Imax * norm_erf(distance * cfg.sign, cfg.width)
    IN  IF cfg.noise = "normal" THEN v + draw * cfg.noise_sigma
        ELSE IF cfg.noise = "uniform"
             THEN v + (draw * cfg.noise_sigma) \div 2
             ELSE v

\* SynErf._compute.  draw is what random_state returns when it is asked:
\* for normal(v, sigma) the deviation from v in sigmas, for uniform(-1, 1)
\* the number drawn, in halves.
SynErf_compute(cfg, distance, draw) ==
    LET dist == distance * cfg.sign
        v    == cfg.Imax * norm_erf(dist, cfg.width)
    IN  IF cfg.noise = "normal" THEN v + draw * cfg.noise_sigma
        ELSE IF cfg.noise = "uniform"
             THEN v + (draw * cfg.noise_multiplier) \div 2
             ELSE v

\* The draws random_state can return for a noise kind.
Draws(noise) ==
    CASE noise = "normal"  -> {-1, 0, 1}
      [] noise = "uniform" -> {-2, -1, 0, 1}
      [] OTHER             -> {0}

Widths   == {1, 2}
Imaxes   == {1, 2}
Noises   == {"none", "uniform", "normal"}
Sigmas   == {2000, 4000}
Mults    == {2000, 4000}
Dists    == {-1, 0, 1}

SynErf_construct_triggering(cfg, distance) ==
    [val |-> cfg.Imax * norm_erf(distance * cfg.sign, cfg.width),
     triggers |-> 1, calls |-> 1]

\* SynErf.__init__ after the puts: _compute is installed and the device is
\* not triggered (the call is commented out).  val is the readback the
\* device is left with, triggers the number of trigger() calls made and
\* calls the number of calls of the distance function.
SynErf_construct(cfg, distance) == [val |-> 0, triggers |-> 0, calls |-> 0]

\* SynErf.__init__: center 0, Imax 1, the other signals from the arguments.
SynErf_init(width, noise, noise_sigma, noise_multiplier, transmission) ==
    [Imax |-> 1, center |-> 0, width |-> width, noise |-> noise,
     noise_sigma |-> noise_sigma, noise_multiplier |-> noise_multiplier,
     sign |-> IF transmission THEN 1 ELSE -1]

\* A test that watches the SynErf notes the configuration and distance of
\* the latest trigger(), and remembers one read(): the configuration and
\* distance at that read, the value it returned and the trigger() that
\* preceded it.  A probe that is not armed notes nothing.
NoTrigger == [done |-> FALSE, cfg |-> <<>>, dist |-> 0]

NoSeen ==
    [done |-> FALSE, cfg |-> <<>>, dist |-> 0, value |-> 0, trig |-> NoTrigger]

ProbeOff == [armed |-> FALSE, trig |-> NoTrigger, seen |-> NoSeen]
ProbeOn  == [armed |-> TRUE, trig |-> NoTrigger, seen |-> NoSeen]

NoteTrigger(pr, cfg, dist) ==
    IF pr.armed
    THEN [pr EXCEPT !.trig = [done |-> TRUE, cfg |-> cfg, dist |-> dist]]
    ELSE pr

NoteRead(pr, cfg, dist, value) ==
    IF pr.armed /\ ~pr.seen.done
    THEN {pr, [pr EXCEPT !.seen = [done |-> TRUE, cfg |-> cfg, dist |-> dist,
                                   value |-> value, trig |-> pr.trig]]}
    ELSE {pr}

\* dev.<signal>.put(value) on one of the configuration signals.
ErfPut ==
    /\ callerPc = "idle"
    /\ \/ \E w \in Widths : erf_cfg' = [erf_cfg EXCEPT !.width = w]
       \/ \E m \in Imaxes : erf_cfg' = [erf_cfg EXCEPT !.Imax = m]
       \/ \E n \in Noises : erf_cfg' = [erf_cfg EXCEPT !.noise = n]
       \/ \E g \in Sigmas : erf_cfg' = [erf_cfg EXCEPT !.noise_sigma = g]
       \/ \E k \in Mults  : erf_cfg' = [erf_cfg EXCEPT !.noise_multiplier = k]
    /\ erf_cfg' # erf_cfg
    /\ UNCHANGED <<dist_in, erf_val>>
    /\ ret' = NoResult
    /\ UNCHANGED <<trigVars, linVars, calls>>
    /\ UNCHANGED <<cmpVars, erf_probe>>
    /\ UNCHANGED normVars

\* The manipulator behind the distance function moves.
SetDist ==
    /\ callerPc = "idle"
    /\ \E d \in Dists : d # dist_in /\ dist_in' = d
    /\ UNCHANGED <<erf_cfg, erf_val>>
    /\ ret' = NoResult
    /\ UNCHANGED <<trigVars, linVars, calls>>
    /\ UNCHANGED <<cmpVars, erf_probe>>
    /\ UNCHANGED normVars

\* SynErf.trigger -> SynSignal.trigger
ErfTrigger ==
    /\ callerPc = "idle"
    /\ Len(handles) < MaxHandles
    /\ \E draw \in Draws(erf_cfg.noise) :
          LET t == SynSignal_trigger("erf", erf_val,
                        SynErf_compute(erf_cfg, dist_in, draw))
          IN  /\ erf_val' = t.stored
              /\ handles' = TrackStatus(handles, Return(t.st))
    /\ returned' = Append(returned, Len(handles) + 1)
    /\ calls' = [calls EXCEPT !.dist = TRUE]
    /\ UNCHANGED <<erf_cfg, dist_in>>
    /\ ret' = NoResult
    /\ UNCHANGED <<exposure_time, exposure_sp, callerPc, linVars>>
    /\ erf_probe' = NoteTrigger(erf_probe, erf_cfg, dist_in)
    /\ UNCHANGED cmpVars
    /\ UNCHANGED normVars

\* SynErf.read -> val.read()
ErfRead ==
    /\ callerPc = "idle"
    /\ LET r == SynSignal_read(erf_val)
       IN  /\ erf_val' = r.stored
           /\ ret' = Result("erf_read", r.value, r.ncalls)
           /\ erf_probe' \in NoteRead(erf_probe, erf_cfg, dist_in, r.value)
    /\ UNCHANGED <<erf_cfg, dist_in>>
    /\ UNCHANGED <<trigVars, linVars, calls>>
    /\ UNCHANGED cmpVars
    /\ UNCHANGED normVars

\* ------------------------------------------ SynCompound, SynMult, derived
\* A dependency device as the composite sees it: val is the stored readback
\* of its val Signal, src is what its own compute function would return now,
\* up tells whether its val accessor works (FALSE: s.val.get() raises).
Dep(val, src, up) == [val |-> val, src |-> src, up |-> up]

\* What the compute function of the i-th dependency can return.
DepSources == <<{2, 3}, {3, 5}, {5, 2}>>

\* ophyd Signal.get(): the stored readback; the signal is left as it is.
Signal_get(dep) == [ok |-> dep.up, value |-> dep.val, dep |-> dep]

\* numpy.prod over a tuple of numbers.
RECURSIVE np_prod(_)
np_prod(args) ==
    IF args = <<>> THEN 1 ELSE Head(args) * np_prod(Tail(args))

RECURSIVE Sum(_)
Sum(args) == IF args = <<>> THEN 0 ELSE Head(args) + Sum(Tail(args))

\* A reducer supplied by the caller of SynCompound: the first value minus
\* all the others; it raises when it is given no value, and it refuses a
\* difference below -3 by raising.
reduce_sub(args) ==
    IF args = <<>> \/ Head(args) - Sum(Tail(args)) < -3
    THEN [ok |-> FALSE, value |-> 0]
    ELSE [ok |-> TRUE, value |-> Head(args) - Sum(Tail(args))]

SynMult_func_sum(args) == [ok |-> TRUE, value |-> Sum(args)]

\* SynMult.__init__: func(*args) returns np.prod(args).
SynMult_func(args) == [ok |-> TRUE, value |-> np_prod(args)]

\* self._func(*vals) for the reducer the device was constructed with.
ApplyFunc(func, args) ==
    IF func = "prod" THEN SynMult_func(args) ELSE reduce_sub(args)

\* The first dependency, in list order, whose accessor raises; 0 if none.
FirstDown(ds) ==
    IF \E i \in 1..Len(ds) : ~Signal_get(ds[i]).ok
    THEN CHOOSE i \in 1..Len(ds) :
            /\ ~Signal_get(ds[i]).ok
            /\ \A j \in 1..(i - 1) : Signal_get(ds[j]).ok
    ELSE 0

ComputeResult(ok, value, err, ds) ==
    [ok |-> ok, value |-> value, err |-> err, deps |-> ds]

SynCompound_compute_triggering(func, ds) ==
    LET trig == [i \in 1..Len(ds) |-> Dep(ds[i].src, ds[i].src, ds[i].up)]
        r    == ApplyFunc(func, [i \in 1..Len(ds) |-> trig[i].val])
    IN  IF FirstDown(ds) # 0
        THEN ComputeResult(FALSE, 0, "accessor", trig)
        ELSE ComputeResult(r.ok, r.value, IF r.ok THEN "none" ELSE "reducer",
                           trig)

\* SynCompound._compute: vals = [s.val.get() for s in signal_list], then
\* self._func(*vals).  The result carries the dependencies as the call
\* leaves them.
SynCompound_compute(func, ds) ==
    LET vals  == [i \in 1..Len(ds) |-> Signal_get(ds[i]).value]
        after == [i \in 1..Len(ds) |-> Signal_get(ds[i]).dep]
        r     == ApplyFunc(func, vals)
    IN  IF FirstDown(ds) # 0
        THEN ComputeResult(FALSE, 0, "accessor", ds)
        ELSE IF r.ok
             THEN ComputeResult(TRUE, r.value, "none", after)
             ELSE ComputeResult(FALSE, 0, "reducer", after)

\* DerivedSynDevice._compute over the device's one dependency.
DerivedSynDevice_compute_of(ds) ==
    LET g == Signal_get(ds[1])
    IN  IF g.ok
        THEN ComputeResult(TRUE, DerivedSynDevice_compute(g.value), "none",
                           <<g.dep>>)
        ELSE ComputeResult(FALSE, 0, "accessor", ds)

CmpKinds == {"mult", "compound", "derived"}

\* val._func of the composite device (sim_set_func(self._compute)).
CompositeCompute(kind, ds) ==
    IF kind = "mult" THEN SynCompound_compute("prod", ds)
    ELSE IF kind = "compound" THEN SynCompound_compute("sub", ds)
    ELSE DerivedSynDevice_compute_of(ds)

SynSignalDelayed_read_of_swallowing(stored, c) ==
    [stored |-> c.value, value |-> c.value, ncalls |-> 1, err |-> "none"]

\* SynSignalDelayed.read when the compute function may raise:
\* self.put(self._func()) evaluates self._func() first, so a raise leaves
\* the stored value alone and propagates to the caller.
SynSignalDelayed_read_of(stored, c) ==
    IF c.ok
    THEN [stored |-> SynSignalDelayed_read(stored, c.value).stored,
          value  |-> SynSignalDelayed_read(stored, c.value).value,
          ncalls |-> 1, err |-> "none"]
    ELSE [stored |-> stored, value |-> 0, ncalls |-> 1, err |-> c.err]

DepIds == 1..Len(deps)

\* What the i-th dependency's compute function returns changes.
DepSetSrc(i) ==
    /\ \E v \in DepSources[i] \ {deps[i].src} :
          deps' = [deps EXCEPT ![i].src = v]
    /\ ret' = NoResult
    /\ UNCHANGED <<trigVars, linVars, erfVars, calls, cmp_kind, cmp_val,
                   erf_probe>>
    /\ UNCHANGED normVars

\* The i-th dependency is triggered by its own user: it stores what its
\* compute function returns.
DepTrigger(i) ==
    /\ deps[i].val # deps[i].src
    /\ deps' = [deps EXCEPT ![i].val = deps[i].src]
    /\ ret' = NoResult
    /\ UNCHANGED <<trigVars, linVars, erfVars, calls, cmp_kind, cmp_val,
                   erf_probe>>
    /\ UNCHANGED normVars

\* The i-th dependency's val accessor starts or stops raising.
DepSetUp(i) ==
    /\ deps' = [deps EXCEPT ![i].up = ~deps[i].up]
    /\ ret' = NoResult
    /\ UNCHANGED <<trigVars, linVars, erfVars, calls, cmp_kind, cmp_val,
                   erf_probe>>
    /\ UNCHANGED normVars

SynSignalDelayed_trigger_computing(dev, delay_time, stored, c) ==
    [stored |-> IF c.ok THEN c.value ELSE stored, ncalls |-> 1,
     st |-> SynSignalDelayed_trigger(dev, delay_time)]

\* SynSignalDelayed.trigger seen from the signal it belongs to: the status
\* object it returns, the readback it leaves and the number of times it
\* invokes the compute function, whose outcome would be c.
SynSignalDelayed_trigger_on(dev, delay_time, stored, c) ==
    [stored |-> stored, ncalls |-> 0,
     st |-> SynSignalDelayed_trigger(dev, delay_time)]

\* trigger() of the composite device: self.val.trigger().
CompositeTrigger ==
    /\ callerPc = "idle"
    /\ Len(handles) < MaxHandles
    /\ LET t == SynSignalDelayed_trigger_on(cmp_kind, exposure_time, cmp_val,
                                            CompositeCompute(cmp_kind, deps))
       IN  /\ handles' = TrackStatus(handles, Return(t.st))
           /\ cmp_val' = t.stored
           /\ calls' = [calls EXCEPT !.cmp = (@ \/ t.ncalls > 0)]
    /\ returned' = Append(returned, Len(handles) + 1)
    /\ ret' = NoResult
    /\ UNCHANGED <<exposure_time, exposure_sp, callerPc, linVars, erfVars,
                   deps, cmp_kind, erf_probe>>
    /\ UNCHANGED normVars

\* read() of the composite device: Device.read() reads val once.
CompositeRead ==
    /\ callerPc = "idle"
    /\ LET c == CompositeCompute(cmp_kind, deps)
           r == SynSignalDelayed_read_of(cmp_val, c)
       IN  /\ cmp_val' = r.stored
           /\ deps' = c.deps
           /\ ret' = IF r.err = "none"
                     THEN Result("cmp_read", r.value, r.ncalls)
                     ELSE Raised("cmp_read", r.ncalls, r.err)
           /\ calls' = [calls EXCEPT !.cmp = (@ \/ r.ncalls > 0)]
    /\ UNCHANGED <<trigVars, linVars, erfVars, cmp_kind, erf_probe>>
    /\ UNCHANGED normVars

\* ------------------------------------------------------ specifications
\* The state after construction.  A SynSignal built without a function
\* starts with a readback of 0; a Signal built without a value holds 0.0.
InitTrig ==
    /\ exposure_time = 0
    /\ exposure_sp = PyFloat(0)
    /\ handles = <<>>
    /\ returned = <<>>
    /\ callerPc = "idle"
    /\ ret = NoResult
    /\ der_val = 0

\* SynLinear.__init__: put offset and slope, install _compute, trigger once.
InitLin(ms, bs, xs) ==
    /\ lin_slope \in ms
    /\ lin_offset \in bs
    /\ x_in \in xs
    /\ lin_val = SynLinear_construct(lin_slope, lin_offset, x_in).val
    /\ dep_read = [done |-> FALSE, value |-> 0]

\* SynErf.__init__: no trigger, the distance function is not called.
InitErf(ws, ns, ts) ==
    /\ \E w \in ws, n \in ns, tr \in ts :
          erf_cfg = SynErf_init(w, n, 2000, 2000, tr)
    /\ dist_in \in Dists
    /\ erf_val = SynErf_construct(erf_cfg, dist_in).val

\* What each constructor did: the trigger() calls it made and the calls of
\* the device's input function (distance, x, the random generator).
Log(c) == [triggers |-> c.triggers, calls |-> c.calls]

\* SynNormal.__init__, and the record of the three constructions.
InitNormal(cs, ws, ds) ==
    /\ norm_cfg \in [center : cs, width : ws]
    /\ \E draw \in ds :
          /\ norm_val = SynNormal_construct(norm_cfg, draw).val
          /\ built = [erf    |-> Log(SynErf_construct(erf_cfg, dist_in)),
                      lin    |-> Log(SynLinear_construct(lin_slope, lin_offset,
                                                         x_in)),
                      normal |-> Log(SynNormal_construct(norm_cfg, draw))]

InitCalls ==
    /\ calls = [x |-> TRUE, dist |-> FALSE, der |-> FALSE, cmp |-> FALSE]
    /\ erf_probe = ProbeOff

\* The dependency lists a composite device can be built over: the first n
\* dependencies, each holding what its compute function returned when it
\* was constructed.
SignalLists(n) ==
    {ds \in [1..n -> [val : {2, 3, 5}, src : {2, 3, 5}, up : {TRUE}]] :
        \A i \in 1..n : ds[i].src \in DepSources[i] /\ ds[i].val = ds[i].src}

\* SynCompound.__init__ / DerivedSynDevice.__init__: the dependencies are
\* kept, _compute is installed, nothing is triggered; val holds 0.
InitComposite(kinds, lens) ==
    /\ cmp_kind \in kinds
    /\ \E n \in lens : deps \in SignalLists(n)
    /\ cmp_kind = "derived" => Len(deps) = 1
    /\ cmp_val = 0

\* Trigger protocol: a DerivedSynDevice and a SimI400Base with their workers.
Init ==
    /\ InitTrig /\ InitCalls
    /\ InitLin({1}, {0}, {0})
    /\ InitErf({1}, {"none"}, {FALSE}) /\ dist_in = 0
    /\ InitComposite({"mult"}, {0})
    /\ InitNormal({0}, {1}, {0})

Next ==
    \/ SetExposureTime
    \/ DerivedTrigger
    \/ \E i \in Ids : SleepAndFinish(i)
    \/ SetExposure
    \/ I400TriggerStart
    \/ I400TriggerReturn
    \/ \E i \in Ids : Acquire(i)
    \/ \E i \in Ids : Wake(i)
    \/ Tick

Spec == Init /\ [][Next]_vars

\* The threads are scheduled, time passes and a started call returns.
Fairness ==
    /\ \A i \in 1..MaxHandles :
          /\ WF_vars(i \in Ids /\ SleepAndFinish(i))
          /\ WF_vars(i \in Ids /\ Acquire(i))
          /\ WF_vars(i \in Ids /\ Wake(i))
    /\ WF_vars(Tick)
    /\ WF_vars(I400TriggerReturn)

FairSpec == Init /\ [][Next]_vars /\ Fairness

\* SynLinear and a DerivedSynDevice over it.
InitLinear ==
    /\ InitTrig /\ InitCalls
    /\ InitLin(Slopes, Offsets, Xs)
    /\ InitErf({1}, {"none"}, {FALSE}) /\ dist_in = 0
    /\ InitComposite({"mult"}, {0})
    /\ InitNormal({0}, {1}, {0})

NextLinear ==
    \/ SetSlope
    \/ SetOffset
    \/ SetX
    \/ LinTrigger
    \/ LinRead
    \/ DerivedTrigger
    \/ DerivedRead

SpecLinear == InitLinear /\ [][NextLinear]_vars

\* SynErf.
InitErfDev ==
    /\ InitTrig /\ InitCalls
    /\ InitLin({1}, {0}, {0})
    /\ InitErf(Widths, Noises, BOOLEAN)
    /\ InitComposite({"mult"}, {0})
    /\ InitNormal({0}, {1}, {0})

NextErf ==
    \/ ErfPut
    \/ SetDist
    \/ ErfTrigger
    \/ ErfRead

SpecErf == InitErfDev /\ [][NextErf]_vars

\* SimI400Base used with durations only.
NextI400 ==
    \/ SetDuration
    \/ I400TriggerStart
    \/ I400TriggerReturn
    \/ \E i \in Ids : Acquire(i)
    \/ \E i \in Ids : Wake(i)
    \/ Tick

SpecI400 == Init /\ [][NextI400]_vars

\* A composite device over one dependency, with delays and workers.
InitDelayed ==
    /\ InitTrig /\ InitCalls
    /\ InitLin({1}, {0}, {0})
    /\ InitErf({1}, {"none"}, {FALSE}) /\ dist_in = 0
    /\ InitComposite(CmpKinds, {1})
    /\ InitNormal({0}, {1}, {0})

NextDelayed ==
    \/ \E i \in DepIds : DepSetSrc(i)
    \/ \E i \in DepIds : DepTrigger(i)
    \/ SetExposureTime
    \/ CompositeTrigger
    \/ CompositeRead
    \/ \E i \in Ids : SleepAndFinish(i)
    \/ \E i \in Ids : Wake(i)
    \/ Tick

SpecDelayed == InitDelayed /\ [][NextDelayed]_vars

\* SynErf, SynLinear and SynNormal from their construction on.
InitBuilt ==
    /\ InitTrig
    /\ calls = [x |-> TRUE, dist |-> FALSE, der |-> FALSE, cmp |-> FALSE]
    /\ erf_probe = ProbeOff
    /\ InitLin({2}, {1}, Xs)
    /\ InitErf({1}, {"none"}, BOOLEAN)
    /\ InitNormal(NormCenters, NormWidths, NormDraws)
    /\ InitComposite({"mult"}, {0})

NextBuilt ==
    \/ SetX
    \/ LinTrigger
    \/ LinRead
    \/ SetDist
    \/ ErfTrigger
    \/ ErfRead
    \/ NormTrigger
    \/ NormRead

SpecBuilt == InitBuilt /\ [][NextBuilt]_vars

\* SynErf with a fixed configuration, watched by a test.
InitErfWatched ==
    /\ InitTrig
    /\ calls = [x |-> TRUE, dist |-> FALSE, der |-> FALSE, cmp |-> FALSE]
    /\ erf_probe = ProbeOn
    /\ InitLin({1}, {0}, {0})
    /\ InitErf(Widths, Noises, BOOLEAN)
    /\ InitComposite({"mult"}, {0})
    /\ InitNormal({0}, {1}, {0})

NextErfWatched ==
    \/ SetDist
    \/ ErfTrigger
    \/ ErfRead

SpecErfWatched == InitErfWatched /\ [][NextErfWatched]_vars

\* SynMult, SynCompound and DerivedSynDevice over dependency devices.
InitCompound ==
    /\ InitTrig /\ InitCalls
    /\ InitLin({1}, {0}, {0})
    /\ InitErf({1}, {"none"}, {FALSE}) /\ dist_in = 0
    /\ InitComposite(CmpKinds, 0..Len(DepSources))
    /\ InitNormal({0}, {1}, {0})

NextCompound ==
    \/ \E i \in DepIds : DepSetSrc(i)
    \/ \E i \in DepIds : DepTrigger(i)
    \/ \E i \in DepIds : DepSetUp(i)
    \/ CompositeTrigger
    \/ CompositeRead

SpecCompound == InitCompound /\ [][NextCompound]_vars

\* ============================================================== claims
Delayed(h) == h.dev = "derived"
Timed(h)   == h.dev = "i400"

\* C1: on a device that models a delay, a trigger with configured delay
\* d > 0 returns a handle that is still pending, the handle is finished only
\* by its worker after the worker has slept d (so at least d has elapsed
\* since the trigger), and the sleep is never executed by the caller.
C1_DelayedCompletion ==
    \A i \in Ids :
        LET h == handles[i]
        IN  (h.dTrig.ok /\ h.dTrig.v > 0) =>
                /\ h.retState # "finished"
                /\ h.sleeper # "caller"
                /\ h.state = "finished" =>
                      /\ h.wpc = "exited"
                      /\ h.sleepDur = h.dTrig.v
                      /\ h.elapsed >= h.dTrig.v

\* C2 as stated: on every device that models a delay, SimI400Base included,
\* a trigger with configured delay 0 spawns no worker and returns a handle
\* that is already finished.
C2_ZeroDelayNoWorker ==
    \A i \in Ids :
        LET h == handles[i]
        IN  (h.dTrig.ok /\ h.dTrig.v = 0) =>
                /\ h.wpc = "none"
                /\ h.retState # "pending"
                /\ h.state = "finished"

\* C2 amended: on a SynSignalDelayed device a trigger with delay 0 spawns no
\* worker and returns a handle already finished; SimI400Base.trigger always
\* spawns a worker, and its handle is finished by that worker only.
C2_ZeroDelay ==
    \A i \in Ids :
        LET h == handles[i]
        IN  /\ (Delayed(h) /\ h.dTrig.v = 0) =>
                  /\ h.wpc = "none"
                  /\ h.retState = "finished"
                  /\ h.state = "finished"
            /\ Timed(h) =>
                  /\ h.wpc # "none"
                  /\ h.state = "finished" => h.wpc = "exited"

\* A SynSignalDelayed handle returned finished without a worker, and a
\* SimI400Base handle with stored exposure 0 returned while still pending.
C2_Witness ==
    /\ \E i \in Ids :
          /\ Delayed(handles[i]) /\ handles[i].dTrig.v = 0
          /\ handles[i].retState = "finished"
    /\ \E i \in Ids :
          /\ Timed(handles[i])
          /\ handles[i].dTrig.ok /\ handles[i].dTrig.v = 0
          /\ handles[i].retState = "pending"

NoDuplicates(seq) ==
    \A i, j \in 1..Len(seq) : i # j => seq[i] # seq[j]

\* C3: set_finished is called at most once on a handle, a handle is
\* finished exactly when it has been called, a finished handle never becomes
\* pending again, and the handles trigger() calls return are pairwise
\* distinct.
C3_FinishedOnce ==
    /\ [](\A i \in Ids :
              /\ handles[i].finishCalls <= 1
              /\ (handles[i].state = "finished") = (handles[i].finishCalls = 1))
    /\ [](NoDuplicates(returned) /\ \A k \in 1..Len(returned) : returned[k] \in Ids)
    /\ [][\A i \in Ids :
              handles[i].state = "finished" =>
                  /\ i \in 1..Len(handles')
                  /\ handles'[i].state = "finished"]_vars

\* Two triggers have returned two handles, one finished by trigger() itself
\* and one finished by its worker.
C3_Witness ==
    /\ Len(returned) = 2
    /\ \E i, j \in Ids :
          /\ handles[i].state = "finished" /\ handles[i].wpc = "none"
          /\ handles[j].state = "finished" /\ handles[j].wpc = "exited"

\* C4: with the workers scheduled fairly, every handle a trigger() call
\* has returned is eventually finished.
C4_EventuallyFinished ==
    \A k \in 1..MaxHandles :
        [](k <= Len(returned) =>
              <>(k <= Len(returned) /\ handles[returned[k]].state = "finished"))

\* C5: a worker sleeps for the delay that was configured when its trigger()
\* was called.
C5_DelayFixedAtTrigger ==
    \A i \in Ids :
        LET h == handles[i]
        IN  h.sleepDur >= 0 => (h.dTrig.ok /\ h.sleepDur = h.dTrig.v)

\* C6: no failure ends a background worker while its handle stays pending
\* and the caller of trigger() has seen no error.
C6_NoSwallowedFailure ==
    \A i \in Ids :
        ~(handles[i].wpc = "raised" /\ handles[i].state = "pending")

\* C7 as stated: a SynErf read() made after a trigger returns the value
\* computed from the configuration and distance current at the read.
C7_ReadTimeValue ==
    (ret.op = "erf_read" /\ calls.dist) =>
        \E draw \in Draws(erf_cfg.noise) :
            ret.value = SynErf_compute(erf_cfg, dist_in, draw)

\* C7 amended: SynErf computes its value inside trigger(), from the
\* configuration and distance current at that trigger; read() returns the
\* stored value, and neither a read nor a change of configuration or
\* distance alters it.
C7_TriggerTimeValue ==
    /\ [](ret.op = "erf_read" => ret.value = erf_val)
    /\ [][(erf_cfg' # erf_cfg \/ dist_in' # dist_in \/ ret'.op = "erf_read")
              => erf_val' = erf_val]_vars
    /\ [][Len(handles') > Len(handles) =>
              \E draw \in Draws(erf_cfg.noise) :
                  erf_val' = SynErf_compute(erf_cfg, dist_in, draw)]_vars

\* A read after a trigger returns a value that the configuration and
\* distance of the moment of the read cannot produce.
C7_Witness ==
    /\ ret.op = "erf_read"
    /\ calls.dist
    /\ \A draw \in Draws(erf_cfg.noise) :
          ret.value # SynErf_compute(erf_cfg, dist_in, draw)

\* C8: a read() of a SynSignalDelayed value source invokes the compute
\* function exactly once, stores its result and returns it: the value read
\* is the one the dependency state of that moment gives.
C8_ReadInvokesCompute ==
    ret.op = "der_read" =>
        /\ ret.ncalls = 1
        /\ ret.value = DerivedSynDevice_compute(lin_val)
        /\ der_val = ret.value

\* A derived read has invoked the compute function once and returned a
\* value other than the readback the device was constructed with.
C8_Witness ==
    /\ ret.op = "der_read"
    /\ ret.ncalls = 1
    /\ calls.der
    /\ ret.value # 0

C10_ReadTimeLinear ==
    ret.op = "lin_read" =>
        ret.value = lin_slope * x_in + lin_offset

LinTriggered ==
    /\ Len(handles') > Len(handles)
    /\ handles'[Len(handles')].dev = "linear"

\* C10 amended: SynLinear holds slope*x + offset evaluated on the slope,
\* offset and x current at its most recent trigger (construction triggers
\* once); read() returns that stored value, and changes of slope, offset
\* or x since that trigger do not show until the next trigger.
C10_TriggerTimeLinear ==
    /\ lin_val = lin_slope * x_in + lin_offset
    /\ [](ret.op = "lin_read" => ret.value = lin_val)
    /\ [][LinTriggered =>
              lin_val' = lin_slope * x_in + lin_offset]_vars
    /\ [][lin_val' # lin_val => LinTriggered]_vars

\* A read returns a value that differs from slope*x + offset of the moment.
C10_Witness ==
    /\ ret.op = "lin_read"
    /\ ret.value # lin_slope * x_in + lin_offset
    /\ Len(handles) > 0

\* The product and the total of the stored values of the first n
\* dependencies.
RECURSIVE StoredProduct(_, _)
StoredProduct(ds, n) ==
    IF n = 0 THEN 1 ELSE StoredProduct(ds, n - 1) * ds[n].val

RECURSIVE StoredTotal(_, _)
StoredTotal(ds, n) ==
    IF n = 0 THEN 0 ELSE StoredTotal(ds, n - 1) + ds[n].val

AllUp == \A i \in DepIds : deps[i].up

\* C11: a read() of a SynMult returns the product of the values its
\* dependencies hold at that read (1 for no dependency), whatever their
\* compute functions would return now; a read() of a SynCompound returns
\* its reducer applied to those values in signal_list order (here the first
\* minus the others); the value returned is the value stored.
C11_ProductOfCurrentValues ==
    (ret.op = "cmp_read" /\ ret.err = "none") =>
        /\ cmp_val = ret.value
        /\ cmp_kind = "mult" => ret.value = StoredProduct(deps, Len(deps))
        /\ cmp_kind = "compound" =>
              /\ deps # <<>>
              /\ ret.value = 2 * deps[1].val - StoredTotal(deps, Len(deps))

\* A SynMult over three dependencies holding 2, 3 and 5 has just been read
\* and returned 30, while a dependency's compute function would return
\* something else by now.
C11_Witness ==
    /\ cmp_kind = "mult" /\ ret.op = "cmp_read"
    /\ Len(deps) = 3
    /\ deps[1].val = 2 /\ deps[2].val = 3 /\ deps[3].val = 5
    /\ deps[3].src # 5
    /\ ret.value = 30

\* C12: trigger() and read() of a SynCompound, SynMult or DerivedSynDevice
\* leave every dependency as it was: its stored value, what its compute
\* function returns and its accessor are unchanged, no compute function of
\* another device is invoked, and the only handle created is the composite
\* device's own.
C12_DependenciesUntouched ==
    [][(ret'.op = "cmp_read" \/ Len(handles') > Len(handles)) =>
          /\ deps' = deps
          /\ [calls' EXCEPT !.cmp = calls.cmp] = calls
          /\ <<lin_val, erf_val, der_val>>' = <<lin_val, erf_val, der_val>>
          /\ Len(handles') <= Len(handles) + 1
          /\ \A i \in 1..Len(handles') :
                i > Len(handles) => handles'[i].dev = cmp_kind]_vars

\* The composite device has been triggered and then read while a
\* dependency still holds a value its compute function no longer returns.
C12_Witness ==
    /\ ret.op = "cmp_read" /\ ret.err = "none"
    /\ handles # <<>>
    /\ \E i \in DepIds : deps[i].val # deps[i].src

\* The difference the reducer of the SynCompound is asked for.
StoredDifference(ds) == 2 * ds[1].val - StoredTotal(ds, Len(ds))

\* The error a compute over the dependencies ds raises: the accessor's if a
\* dependency's accessor raises, else the reducer's if the reducer raises.
ExpectedError(kind, ds) ==
    IF \E i \in 1..Len(ds) : ~ds[i].up THEN "accessor"
    ELSE IF kind = "compound" /\ (ds = <<>> \/ StoredDifference(ds) < -3)
         THEN "reducer"
         ELSE "none"

\* C13: when the compute fails during read() of a SynCompound, SynMult or
\* DerivedSynDevice, because a dependency's accessor raises or because the
\* reducer raises, that error reaches the caller, the read yields no value,
\* and the device's stored value is the one it held before the call; a
\* compute that does not fail raises nothing.
C13_FailedReadKeepsStored ==
    [][ret'.op = "cmp_read" =>
          /\ ret'.err = ExpectedError(cmp_kind, deps)
          /\ ret'.err # "none" => (ret'.value = 0 /\ cmp_val' = cmp_val)]_vars

\* A read has just failed on a device that still stores the value of an
\* earlier successful read.
C13_Witness ==
    /\ ret.op = "cmp_read" /\ ret.err = "accessor" /\ cmp_val > 1

\* The same for a reducer that raised.
C13_WitnessReducer ==
    /\ ret.op = "cmp_read" /\ ret.err = "reducer" /\ cmp_val # 0

\* C14 as stated: with noise 'none', two read() calls of a SynErf made
\* under identical configuration and identical distance return identical
\* values, whatever trigger() and read() calls happen between them.
C14_SameInputsSameRead ==
    (/\ ret.op = "erf_read" /\ erf_cfg.noise = "none"
     /\ erf_probe.seen.done
     /\ erf_probe.seen.cfg = erf_cfg /\ erf_probe.seen.dist = dist_in)
        => ret.value = erf_probe.seen.value

\* Every number random_state could hand to _compute.
AnyDraw == Draws("normal") \cup Draws("uniform")

\* C14 amended: with noise 'none' the value a SynErf holds is computed by
\* trigger(), as Imax * norm_erf(sign * distance, width) of the
\* configuration and distance at that trigger, and no number a random
\* generator could give enters it; two read() calls return identical values
\* when the latest trigger() before each was made under identical
\* configuration and distance (or when neither was preceded by a trigger),
\* whatever happens between them.
C14_SameTriggerSameRead ==
    /\ [](erf_cfg.noise = "none" =>
             /\ \A draw \in AnyDraw :
                   SynErf_compute(erf_cfg, dist_in, draw)
                       = erf_cfg.Imax
                             * norm_erf(dist_in * erf_cfg.sign, erf_cfg.width)
             /\ (ret.op = "erf_read" /\ erf_probe.seen.done
                     /\ erf_probe.seen.trig = erf_probe.trig)
                    => ret.value = erf_probe.seen.value)
    /\ [][(erf_cfg.noise = "none" /\ Len(handles') > Len(handles)) =>
              erf_val' = erf_cfg.Imax
                            * norm_erf(dist_in * erf_cfg.sign, erf_cfg.width)]_vars

\* With noise 'none', after two triggers, a read returns the same non-zero
\* value as a remembered read: both were made under the same configuration
\* and distance, and so were the latest triggers before them.
C14_Witness ==
    /\ ret.op = "erf_read" /\ erf_cfg.noise = "none"
    /\ erf_probe.seen.done
    /\ erf_probe.seen.cfg = erf_cfg /\ erf_probe.seen.dist = dist_in
    /\ erf_probe.seen.trig = erf_probe.trig /\ erf_probe.trig.done
    /\ Len(handles) > 1
    /\ ret.value # 0

\* The noiseless value of a SynErf for a configuration and a distance.
Noiseless(cfg, d) == cfg.Imax * norm_erf(d * cfg.sign, cfg.width)

\* C15: the parameters of an inactive noise kind are inert but retained.
\* While noise is not 'normal' the value of noise_sigma, and while noise is
\* not 'uniform' the value of noise_multiplier, has no influence on what
\* the next trigger() computes, and a put to a configuration signal leaves
\* the stored value, hence the next read(), as it was; a put that switches
\* the noise kind leaves noise_sigma and noise_multiplier unchanged; a
\* trigger() under 'normal' uses the noise_sigma stored then, and under
\* 'uniform' the noise_multiplier stored then.
C15_InactiveNoiseInert ==
    /\ [](\A draw \in Draws(erf_cfg.noise) :
            /\ erf_cfg.noise # "normal" =>
                  \A g \in Sigmas :
                      SynErf_compute([erf_cfg EXCEPT !.noise_sigma = g],
                                     dist_in, draw)
                          = SynErf_compute(erf_cfg, dist_in, draw)
            /\ erf_cfg.noise # "uniform" =>
                  \A k \in Mults :
                      SynErf_compute([erf_cfg EXCEPT !.noise_multiplier = k],
                                     dist_in, draw)
                          = SynErf_compute(erf_cfg, dist_in, draw))
    /\ [][erf_cfg' # erf_cfg => erf_val' = erf_val]_vars
    /\ [][erf_cfg'.noise # erf_cfg.noise =>
              /\ erf_cfg'.noise_sigma = erf_cfg.noise_sigma
              /\ erf_cfg'.noise_multiplier = erf_cfg.noise_multiplier]_vars
    /\ [][Len(handles') > Len(handles) =>
              \E draw \in Draws(erf_cfg.noise) :
                  erf_val' = Noiseless(erf_cfg, dist_in)
                      + (CASE erf_cfg.noise = "normal" ->
                                  draw * erf_cfg.noise_sigma
                           [] erf_cfg.noise = "uniform" ->
                                  (draw * erf_cfg.noise_multiplier) \div 2
                           [] OTHER -> 0)]_vars

\* A read returns a value that a trigger under 'normal' noise computed with
\* a noise_sigma of 4000, which is not the one the device was built with,
\* while noise_multiplier has been changed as well.
C15_Witness ==
    /\ ret.op = "erf_read"
    /\ erf_cfg.noise = "normal"
    /\ erf_cfg.noise_sigma = 4000 /\ erf_cfg.noise_multiplier = 4000
    /\ Abs(ret.value - Noiseless(erf_cfg, dist_in)) = 4000

\* C16: set_exposure(x) stores x as text; for every duration x of the
\* bounded set (1.5 s included) parsing the text stored by set_exposure(x)
\* gives x back, and a trigger() issued after set_exposure(x) has returned
\* sleeps for x: the worker of every SimI400Base handle sleeps for the
\* duration that was stored when its trigger() was called.
C16_ExposureRoundTrip ==
    /\ \A x \in Durations :
          /\ SimI400Base_set_exposure(x).kind = "str"
          /\ ToFloat(SimI400Base_set_exposure(x)) = ToFloat(x)
    /\ \A i \in Ids :
          (Timed(handles[i]) /\ handles[i].sleeper = "worker") =>
              handles[i].sleepDur = handles[i].dTrig.v

\* C17: on a device whose val is a SynSignalDelayed, trigger() and the run
\* and completion of its worker never invoke the compute function and leave
\* the stored value unchanged; the stored value changes only inside read();
\* the handle carries no value (a handle is the same whatever the
\* dependencies hold).
C17_TriggerLeavesValue ==
    /\ [][handles' # handles =>
              /\ cmp_val' = cmp_val
              /\ calls' = calls
              /\ ret'.op # "cmp_read" \/ ret' = ret]_vars
    /\ [][cmp_val' # cmp_val =>
              /\ handles' = handles
              /\ ret'.op = "cmp_read" /\ ret'.value = cmp_val'
              /\ calls'.cmp]_vars
    /\ [](~calls.cmp => cmp_val = 0)

\* The worker of a delayed trigger has finished its handle, and the device,
\* which has been read, stores a value that is not the one its dependency
\* holds now.
C17_Witness ==
    /\ \E i \in Ids : handles[i].wpc = "exited" /\ handles[i].dTrig.v > 0
    /\ calls.cmp /\ cmp_val # 0
    /\ cmp_kind = "derived"
    /\ cmp_val # deps[1].val

Live(h) == h.wpc \in {"spawned", "sleeping"}

\* C18: in every reachable state each pending handle has a live worker that
\* will finish it and no live worker has a handle that is already finished;
\* a worker that has finished its handle has terminated.
C18_PendingHasLiveWorker ==
    \A i \in Ids :
        /\ handles[i].state = "pending" => Live(handles[i])
        /\ Live(handles[i]) => handles[i].state = "pending"
        /\ (handles[i].state = "finished" /\ handles[i].wpc # "none") =>
              handles[i].wpc = "exited"

\* C19: a trigger() made while an earlier handle of the same device is
\* pending leaves that handle and its worker as they were (it is neither
\* finished, cancelled nor abandoned by the new call); a pending handle is
\* finished only by a step of its own worker, which leaves every other
\* handle alone.
C19_IndependentTriggers ==
    /\ [][Len(handles') > Len(handles) =>
              \A i \in Ids : handles'[i] = handles[i]]_vars
    /\ [][\A i \in Ids :
              (handles[i].state = "pending" /\ i \in 1..Len(handles')
                  /\ handles'[i].state = "finished") =>
                   /\ handles[i].wpc = "sleeping"
                   /\ handles'[i].wpc = "exited"
                   /\ \A j \in Ids \ {i} : handles'[j] = handles[j]]_vars

\* Two delayed triggers of the same device, the second made before the
\* first had finished; the handle of the second has been finished by its
\* worker while the first is still pending with its worker asleep.
C19_Witness ==
    /\ Len(handles) = 2
    /\ handles[1].dev = handles[2].dev
    /\ handles[1].state = "pending" /\ handles[1].wpc = "sleeping"
    /\ handles[1].dTrig.v > 0 /\ handles[1].sleepDur = handles[1].dTrig.v
    /\ handles[2].state = "finished" /\ handles[2].wpc = "exited"

Triggered(dev) == \E i \in Ids : handles[i].dev = dev

\* C20: the constructor of SynErf makes no trigger() call and no call of
\* the distance function, so the device holds the default 0 and the
\* distance function is first called by the first explicit trigger(); the
\* constructors of SynLinear and SynNormal each make exactly one trigger()
\* call, so SynLinear has called x once when it is constructed and holds
\* slope * x + offset from its construction until it is triggered again,
\* and SynNormal holds a draw around its center.
C20_ConstructionTriggers ==
    /\ lin_val = lin_slope * x_in + lin_offset
    /\ erf_val = 0
    /\ [](/\ built.erf = [triggers |-> 0, calls |-> 0]
          /\ built.lin = [triggers |-> 1, calls |-> 1]
          /\ built.normal = [triggers |-> 1, calls |-> 1]
          /\ ~Triggered("erf") => (~calls.dist /\ erf_val = 0)
          /\ ~Triggered("linear") =>
                \E x \in Xs : lin_val = lin_slope * x + lin_offset
          /\ ~Triggered("normal") =>
                \E draw \in NormDraws :
                    norm_val = norm_cfg.center + draw * norm_cfg.width)
    /\ [][(calls'.dist /\ ~calls.dist) =>
              /\ Len(handles') = Len(handles) + 1
              /\ handles'[Len(handles')].dev = "erf"]_vars

\* The SynErf has been triggered explicitly and then read, which gave a
\* value other than the 0 it held since construction; the SynLinear has
\* never been triggered explicitly and holds slope * x + offset for the x
\* of its construction, which x no longer returns.
C20_Witness ==
    /\ ret.op = "erf_read" /\ ret.value # 0
    /\ calls.dist /\ Triggered("erf")
    /\ ~Triggered("linear")
    /\ lin_val # 0
    /\ lin_val # lin_slope * x_in + lin_offset
====
